---- MODULE Spec2Model ----
(***************************************************************************)
(* A model of callosum's RPC message layer (callosum/rpc/message.py) and   *)
(* of the Peer's handler registries and request tracking.                  *)
(*                                                                         *)
(* Python values are records [k, v] (scalars) or [k, v, items]             *)
(* (containers).  Byte strings are sequences of numbers 0..255.            *)
(***************************************************************************)
EXTENDS Integers, Sequences, FiniteSets, TLC

VARIABLES
    has_snappy,      \* [peer -> BOOLEAN]: message.py's module flag, per process
    msg,             \* codec: the RPCMessage handed to encode
    compress,        \* codec: encode's compress argument
    raw,             \* codec: outcome of encode  [raised, header, data, ser_calls]
    decoded,         \* codec: outcome of decode  [raised, value, deser_calls]
    cpc,             \* codec: "init" | "encoded" | "decoded"
    request,         \* constructors: the request message replied to
    exc_info,        \* constructors: the exception being handled (sys.exc_info())
    called,          \* constructors: the constructor last called, with its body
    reply,           \* constructors: the message it built
    wire,            \* constructors: what the receiver decodes the reply to
    func_registry,   \* Peer._func_registry : method name -> handler
    stream_registry, \* Peer._stream_registry
    last_reg,        \* registries: the last registration call made
    exec_timeout,    \* tracker: whether the Peer has an exec_timeout set
    calls,           \* tracker: the outbound calls made [req, state, value, by]
    table,           \* tracker: request_id -> index into calls (PENDING entries)
    cancels,         \* tracker: the CANCEL messages this peer sent
    event            \* tracker: what the last step did, <<kind, message>>

codec_vars == <<has_snappy, msg, compress, raw, decoded, cpc>>
ctor_vars == <<request, exc_info, called, reply, wire>>
reg_vars == <<func_registry, stream_registry, last_reg>>
trk_vars == <<exec_timeout, calls, table, cancels, event>>
vars == <<codec_vars, ctor_vars, reg_vars, trk_vars>>

----------------------------------------------------------------------------
(* Python values *)

None == [k |-> "nil", v |-> <<>>]
PyBool(b) == [k |-> "bool", v |-> <<IF b THEN 1 ELSE 0>>]
PyInt(n) == [k |-> "int", v |-> <<n>>]
PyStr(s) == [k |-> "str", v |-> s]
PyBytes(b) == [k |-> "bin", v |-> b]
\* a list or tuple
PyList(xs) == [k |-> "arr", v |-> <<>>, items |-> xs]
\* a dict, as the alternating sequence key, value, key, value, ...
PyDict(kvs) == [k |-> "map", v |-> <<>>, items |-> kvs]

RECURSIVE Flatten(_)
Flatten(ss) == IF ss = <<>> THEN <<>> ELSE Head(ss) \o Flatten(Tail(ss))

\* d[key] for a dict d; HasKey tells whether the lookup raises KeyError
HasKey(d, key) == \E i \in 1..(Len(d.items) \div 2) : d.items[2 * i - 1] = key
Get(d, key) ==
    LET i == CHOOSE j \in 1..(Len(d.items) \div 2) : d.items[2 * j - 1] = key
    IN  d.items[2 * i]

----------------------------------------------------------------------------
(* callosum.serialize.mpackb / munpackb: the msgpack format.               *)

PackInt(n) ==
    IF n < 128 THEN <<n>>
    ELSE IF n < 256 THEN <<204, n>>
    ELSE <<205, n \div 256, n % 256>>

RECURSIVE mpackb(_)
mpackb(x) ==
    CASE x.k = "nil" -> <<192>>
      [] x.k = "bool" -> <<194 + x.v[1]>>
      [] x.k = "int" -> PackInt(x.v[1])
      [] x.k = "str" ->
            IF Len(x.v) < 32 THEN <<160 + Len(x.v)>> \o x.v
            ELSE <<217, Len(x.v)>> \o x.v
      [] x.k = "bin" -> <<196, Len(x.v)>> \o x.v
      [] x.k = "arr" ->
            <<144 + Len(x.items)>>
                \o Flatten([i \in 1..Len(x.items) |-> mpackb(x.items[i])])
      [] x.k = "map" ->
            <<128 + (Len(x.items) \div 2)>>
                \o Flatten([i \in 1..Len(x.items) |-> mpackb(x.items[i])])

\* Parsing: Parse(b, i) reads one value of b starting at position i and
\* gives [ok, val, next]; ParseItems reads n values in a row.
Slice(b, i, n) == [j \in 1..n |-> b[i + j - 1]]
ParseFail == [ok |-> FALSE, val |-> None, next |-> 0]

RECURSIVE Parse(_, _), ParseItems(_, _, _)
Parse(b, i) ==
    IF i > Len(b) THEN ParseFail
    ELSE LET t == b[i] IN
    CASE t < 128 -> [ok |-> TRUE, val |-> PyInt(t), next |-> i + 1]
      [] t >= 128 /\ t < 144 ->
            LET r == ParseItems(b, i + 1, 2 * (t - 128))
            IN  IF r.ok THEN [ok |-> TRUE, val |-> PyDict(r.vals), next |-> r.next]
                ELSE ParseFail
      [] t >= 144 /\ t < 160 ->
            LET r == ParseItems(b, i + 1, t - 144)
            IN  IF r.ok THEN [ok |-> TRUE, val |-> PyList(r.vals), next |-> r.next]
                ELSE ParseFail
      [] t >= 160 /\ t < 192 ->
            IF i + (t - 160) > Len(b) THEN ParseFail
            ELSE [ok |-> TRUE, val |-> PyStr(Slice(b, i + 1, t - 160)),
                  next |-> i + 1 + (t - 160)]
      [] t = 192 -> [ok |-> TRUE, val |-> None, next |-> i + 1]
      [] t = 194 \/ t = 195 ->
            [ok |-> TRUE, val |-> PyBool(t = 195), next |-> i + 1]
      [] t = 196 \/ t = 217 ->
            IF i + 1 > Len(b) \/ i + 1 + b[i + 1] > Len(b) THEN ParseFail
            ELSE [ok |-> TRUE,
                  val |-> IF t = 196 THEN PyBytes(Slice(b, i + 2, b[i + 1]))
                          ELSE PyStr(Slice(b, i + 2, b[i + 1])),
                  next |-> i + 2 + b[i + 1]]
      [] t = 204 ->
            IF i + 1 > Len(b) THEN ParseFail
            ELSE [ok |-> TRUE, val |-> PyInt(b[i + 1]), next |-> i + 2]
      [] t = 205 ->
            IF i + 2 > Len(b) THEN ParseFail
            ELSE [ok |-> TRUE, val |-> PyInt(b[i + 1] * 256 + b[i + 2]),
                  next |-> i + 3]
      [] OTHER -> ParseFail
ParseItems(b, i, n) ==
    IF n = 0 THEN [ok |-> TRUE, vals |-> <<>>, next |-> i]
    ELSE LET h == Parse(b, i) IN
         IF ~h.ok THEN [ok |-> FALSE, vals |-> <<>>, next |-> 0]
         ELSE LET r == ParseItems(b, h.next, n - 1) IN
              IF ~r.ok THEN r
              ELSE [ok |-> TRUE, vals |-> <<h.val>> \o r.vals, next |-> r.next]

\* munpackb(b): [raised, value]; raises on malformed or trailing bytes
munpackb(b) ==
    LET r == Parse(b, 1) IN
    IF r.ok /\ r.next = Len(b) + 1 THEN [raised |-> "", value |-> r.val]
    ELSE [raised |-> "UnpackException", value |-> None]

----------------------------------------------------------------------------
(* python-snappy: the block format, written as one literal element behind  *)
(* the varint of the uncompressed length.                                  *)

Varint(n) == IF n < 128 THEN <<n>> ELSE <<128 + (n % 128), n \div 128>>

snappy_compress(b) ==
    IF Len(b) = 0 THEN <<0>>
    ELSE IF Len(b) <= 60 THEN Varint(Len(b)) \o <<4 * (Len(b) - 1)>> \o b
    ELSE Varint(Len(b)) \o <<240, Len(b) - 1>> \o b

\* [raised, value]
snappy_decompress(b) ==
    LET bad == [raised |-> "UncompressError", value |-> <<>>]
        big == Len(b) >= 1 /\ b[1] >= 128
        n == IF big THEN (b[1] - 128) + 128 * b[2] ELSE b[1]
        p == IF big THEN 3 ELSE 2
    IN  IF Len(b) = 0 \/ (big /\ Len(b) < 2) THEN bad
        ELSE IF n = 0 THEN
            IF Len(b) = p - 1 THEN [raised |-> "", value |-> <<>>] ELSE bad
        ELSE IF Len(b) < p THEN bad
        ELSE IF b[p] = 240 THEN
            IF Len(b) = p + 1 + n /\ b[p + 1] = n - 1
            THEN [raised |-> "", value |-> Slice(b, p + 2, n)] ELSE bad
        ELSE IF b[p] = 4 * (n - 1) /\ n <= 60 /\ Len(b) = p + n
            THEN [raised |-> "", value |-> Slice(b, p + 1, n)] ELSE bad

----------------------------------------------------------------------------
(* Metadata classes (attrs classes over TupleEncodingMixin) *)

Obj(cls, fields) == [k |-> "obj", v |-> <<>>, cls |-> cls, fields |-> fields]

FunctionMetadata == Obj("FunctionMetadata", <<>>)
ResultMetadata == Obj("ResultMetadata", <<>>)
StreamMetadata(resource_name, length) ==
    Obj("StreamMetadata", <<resource_name, length>>)
ErrorMetadata(name, traceback) == Obj("ErrorMetadata", <<name, traceback>>)
NullMetadata == Obj("NullMetadata", <<>>)

\* number of attrs fields of each class
NFields(cls) ==
    IF cls \in {"StreamMetadata", "ErrorMetadata"} THEN 2 ELSE 0

\* what iterating over an unpacked value yields (the * of cls(*value))
Iterable(x) == x.k \in {"arr", "map", "str", "bin"}
Iter(x) ==
    CASE x.k = "arr" -> x.items
      [] x.k = "map" -> [i \in 1..(Len(x.items) \div 2) |-> x.items[2 * i - 1]]
      [] x.k = "str" -> [i \in 1..Len(x.v) |-> PyStr(<<x.v[i]>>)]
      [] x.k = "bin" -> [i \in 1..Len(x.v) |-> PyInt(x.v[i])]

\* mutant: an empty buffer gives an instance without fields, not None
Mut_decode_EmptyInstance(cls, buffer) ==
    IF Len(buffer) = 0 THEN [raised |-> "", value |-> Obj(cls, <<>>)]
    ELSE LET u == munpackb(buffer) IN
         IF u.raised # "" THEN u
         ELSE IF ~Iterable(u.value) THEN [raised |-> "TypeError", value |-> None]
         ELSE IF Len(Iter(u.value)) # NFields(cls)
              THEN [raised |-> "TypeError", value |-> None]
         ELSE [raised |-> "", value |-> Obj(cls, Iter(u.value))]

\* cls(*munpackb(buffer)), None for an empty buffer: [raised, value]
TupleEncodingMixin_decode(cls, buffer) ==
    IF Len(buffer) = 0 THEN [raised |-> "", value |-> None]
    ELSE LET u == munpackb(buffer) IN
         IF u.raised # "" THEN u
         ELSE IF ~Iterable(u.value) THEN [raised |-> "TypeError", value |-> None]
         ELSE IF Len(Iter(u.value)) # NFields(cls)
              THEN [raised |-> "TypeError", value |-> None]
         ELSE [raised |-> "", value |-> Obj(cls, Iter(u.value))]

\* mutant: the field values are packed last field first
Mut_encode_Reversed(self) ==
    mpackb(PyList([i \in 1..Len(self.fields) |->
                        self.fields[Len(self.fields) + 1 - i]]))

\* mpackb of the field values in declaration order
TupleEncodingMixin_encode(self) == mpackb(PyList(self.fields))

FUNCTION == 0
STREAM == 1
RESULT == 2
FAILURE == 3
ERROR == 4
CANCEL == 5
RPCMessageTypes == {FUNCTION, STREAM, RESULT, FAILURE, ERROR, CANCEL}

\* mapped from RPCMessageTypes as index
metadata_types(msgtype) ==
    CASE msgtype = FUNCTION -> "FunctionMetadata"
      [] msgtype = STREAM -> "StreamMetadata"
      [] msgtype = RESULT -> "ResultMetadata"
      [] msgtype = FAILURE -> "ErrorMetadata"
      [] msgtype = ERROR -> "ErrorMetadata"
      [] msgtype = CANCEL -> "NullMetadata"

----------------------------------------------------------------------------
(* RPCMessage *)

RPCMessage(msgtype, method, order_key, seq_id, metadata, body) ==
    [msgtype |-> msgtype, method |-> method, order_key |-> order_key,
     seq_id |-> seq_id, metadata |-> metadata, body |-> body]

\* mutants: the correlation key without the seq_id, without the method
Mut_request_id_NoSeq(self) == <<self.method, self.order_key>>
Mut_request_id_NoMethod(self) == <<self.order_key, self.seq_id>>

request_id(self) == <<self.method, self.order_key, self.seq_id>>

result(req, result_body) ==
    RPCMessage(RESULT, req.method, req.order_key, req.seq_id,
               ResultMetadata, result_body)

\* exc_info is the exception being handled: <<exc_info[0].__name__,
\* traceback.format_exc()>>
failure(req) ==
    RPCMessage(FAILURE, req.method, req.order_key, req.seq_id,
               ErrorMetadata(exc_info[1], exc_info[2]), None)

\* mutant: error tags its message FAILURE
Mut_error_AsFailure(req) ==
    RPCMessage(FAILURE, req.method, req.order_key, req.seq_id,
               ErrorMetadata(exc_info[1], exc_info[2]), None)

error(req) ==
    RPCMessage(ERROR, req.method, req.order_key, req.seq_id,
               ErrorMetadata(exc_info[1], exc_info[2]), None)

\* mutant: cancel passes order_key and method in the wrong order
Mut_cancel_Swapped(req) ==
    RPCMessage(CANCEL, req.order_key, req.method, req.seq_id,
               NullMetadata, None)

cancel(req) ==
    RPCMessage(CANCEL, req.method, req.order_key, req.seq_id,
               NullMetadata, None)

\* dict keys of the header and of the body blob
K_type == PyStr(<<116, 121, 112, 101>>)
K_meth == PyStr(<<109, 101, 116, 104>>)
K_okey == PyStr(<<111, 107, 101, 121>>)
K_seq == PyStr(<<115, 101, 113>>)
K_zip == PyStr(<<122, 105, 112>>)
K_meta == PyStr(<<109, 101, 116, 97>>)
K_body == PyStr(<<98, 111, 100, 121>>)

\* The externally supplied value codec: here the msgpack one.
serializer(value) == PyBytes(mpackb(value))
\* [raised, value]
deserializer(b) ==
    IF b.k # "bin" THEN [raised |-> "TypeError", value |-> None]
    ELSE munpackb(b.v)

EncodeRaise(exc, calls_) ==
    [raised |-> exc, header |-> <<>>, data |-> <<>>, ser_calls |-> calls_]

\* encode: the metadata bytes, b'' when the message has no metadata
EncodeMetadata(self) ==
    IF self.metadata # None THEN TupleEncodingMixin_encode(self.metadata)
    ELSE <<>>

\* encode: the header dict
EncodeHeader(self, compress_) ==
    PyDict(<<K_type, PyInt(self.msgtype), K_meth, self.method,
             K_okey, self.order_key, K_seq, self.seq_id,
             K_zip, PyBool(compress_)>>)

\* mutant: the serializer is applied whatever the message type
Mut_EncodeBody_Always(self) ==
    [body |-> serializer(self.body), ser_calls |-> <<self.body>>]

\* encode: the body put into the blob, and the serializer's arguments
EncodeBody(self) ==
    IF self.msgtype \in {FUNCTION, RESULT}
    THEN [body |-> serializer(self.body), ser_calls |-> <<self.body>>]
    ELSE [body |-> self.body, ser_calls |-> <<>>]

\* mutant: without the compressor, compression is skipped silently
Mut_encode_SkipCompression(snappy, self, compress_) ==
    LET metadata == EncodeMetadata(self)
        serialized_header == mpackb(EncodeHeader(self, compress_))
        b == EncodeBody(self)
        data == PyDict(<<K_meta, PyBytes(metadata), K_body, b.body>>)
        serialized_data == mpackb(data)
    IN  [raised |-> "", header |-> serialized_header,
         data |-> IF compress_ /\ snappy THEN snappy_compress(serialized_data)
                  ELSE serialized_data,
         ser_calls |-> b.ser_calls]

\* RPCMessage.encode, run in a process whose has_snappy flag is snappy:
\* [raised, header, data] and the arguments the serializer was called with
RPCMessage_encode(snappy, self, compress_) ==
    LET metadata == EncodeMetadata(self)
        serialized_header == mpackb(EncodeHeader(self, compress_))
        b == EncodeBody(self)
        data == PyDict(<<K_meta, PyBytes(metadata), K_body, b.body>>)
        serialized_data == mpackb(data)
    IN  IF compress_ THEN
            IF ~snappy THEN EncodeRaise("ConfigurationError", b.ser_calls)
            ELSE [raised |-> "", header |-> serialized_header,
                  data |-> snappy_compress(serialized_data),
                  ser_calls |-> b.ser_calls]
        ELSE [raised |-> "", header |-> serialized_header,
              data |-> serialized_data, ser_calls |-> b.ser_calls]

DecodeRaise(exc) == [raised |-> exc, value |-> None, deser_calls |-> <<>>]

\* decode: the body taken from the blob's b, and the deserializer's arguments
DecodeBody(msgtype, b) ==
    IF msgtype \in {FUNCTION, RESULT}
    THEN LET r == deserializer(b)
         IN  [raised |-> r.raised, value |-> r.value, deser_calls |-> <<b>>]
    ELSE [raised |-> "", value |-> b, deser_calls |-> <<>>]

\* The part of RPCMessage.decode after the body blob is decompressed
DecodeData(header, msgtype, raw_data) ==
    LET d == munpackb(raw_data) IN
    IF d.raised # "" THEN DecodeRaise(d.raised)
    ELSE IF d.value.k # "map" THEN DecodeRaise("TypeError")
    ELSE IF ~HasKey(d.value, K_meta) THEN DecodeRaise("KeyError")
    ELSE IF Get(d.value, K_meta).k \notin {"bin", "str"}
         THEN DecodeRaise("TypeError")
    ELSE LET metadata == TupleEncodingMixin_decode(metadata_types(msgtype),
                                                   Get(d.value, K_meta).v)
    IN  IF metadata.raised # "" THEN DecodeRaise(metadata.raised)
        ELSE IF ~HasKey(d.value, K_body) THEN DecodeRaise("KeyError")
        ELSE LET body == DecodeBody(msgtype, Get(d.value, K_body))
        IN  IF body.raised # "" THEN
                [raised |-> body.raised, value |-> None,
                 deser_calls |-> body.deser_calls]
            ELSE IF ~(HasKey(header, K_meth) /\ HasKey(header, K_okey)
                      /\ HasKey(header, K_seq))
                 THEN [raised |-> "KeyError", value |-> None,
                       deser_calls |-> body.deser_calls]
            ELSE [raised |-> "",
                  value |-> RPCMessage(msgtype, Get(header, K_meth),
                                       Get(header, K_okey), Get(header, K_seq),
                                       metadata.value, body.value),
                  deser_calls |-> body.deser_calls]

\* RPCMessage.decode, run in a process whose has_snappy flag is snappy;
\* raw_msg is the pair [header, data]
RPCMessage_decode(snappy, raw_msg) ==
    LET h == munpackb(raw_msg.header) IN
    IF h.raised # "" THEN DecodeRaise(h.raised)
    ELSE IF h.value.k # "map" THEN DecodeRaise("TypeError")
    ELSE IF ~HasKey(h.value, K_type) THEN DecodeRaise("KeyError")
    ELSE IF Get(h.value, K_type).k # "int"
            \/ Get(h.value, K_type).v[1] \notin RPCMessageTypes
         THEN DecodeRaise("ValueError")
    ELSE IF ~HasKey(h.value, K_zip) THEN DecodeRaise("KeyError")
    ELSE LET msgtype == Get(h.value, K_type).v[1]
             compressed == Get(h.value, K_zip) = PyBool(TRUE)
    IN  IF compressed THEN
            IF ~snappy THEN DecodeRaise("ConfigurationError")
            ELSE LET z == snappy_decompress(raw_msg.data) IN
                 IF z.raised # "" THEN DecodeRaise(z.raised)
                 ELSE DecodeData(h.value, msgtype, z.value)
        ELSE DecodeData(h.value, msgtype, raw_msg.data)

----------------------------------------------------------------------------
(* Bounds and the values messages are drawn from *)

MaxSeqId == 1
MaxLength == 1

Methods == {PyStr(<<97, 100, 100>>), PyStr(<<101, 99, 104, 111>>)}
OrderKeys == {PyStr(<<>>), PyStr(<<107>>)}
SeqIds == {PyInt(n) : n \in (0..MaxSeqId) \cup {200}}
ExcInfos ==
    {<<PyStr(<<69>>), PyStr(<<116, 98>>)>>,
     <<PyStr(<<86, 97, 108, 117, 101, 69, 114, 114, 111, 114>>),
       PyStr(<<98, 97, 100, 32, 105, 110, 112, 117, 116>>)>>}
Metadatas ==
    {FunctionMetadata, ResultMetadata, NullMetadata}
        \cup {StreamMetadata(PyStr(<<114>>), PyInt(n)) : n \in 0..MaxLength}
        \cup {ErrorMetadata(e[1], e[2]) : e \in ExcInfos}
\* raw payloads, and values handed to the serializer
RawBodies == {None, PyBytes(<<>>), PyBytes(<<1, 255>>)}
Values == RawBodies \cup {PyList(<<PyInt(2), PyInt(3)>>)}

Messages ==
    {RPCMessage(t, m, o, q, md, b) :
        t \in RPCMessageTypes, m \in Methods, o \in OrderKeys, q \in SeqIds,
        md \in Metadatas \cup {None}, b \in Values}
\* the messages the annotations admit: raw bodies are Optional[bytes]
TypedMessages ==
    {x \in Messages : x.msgtype \in {FUNCTION, RESULT} \/ x.body \in RawBodies}

----------------------------------------------------------------------------
(* Idle values of each part's variables *)

NoRaw == EncodeRaise("", <<>>)
NoDecoded == DecodeRaise("")
EmptyMap == [x \in {} |-> None]

CodecIdle ==
    /\ has_snappy = [p \in {"tx", "rx"} |-> TRUE]
    /\ msg = None /\ compress = FALSE
    /\ raw = NoRaw /\ decoded = NoDecoded /\ cpc = "idle"
CtorIdle ==
    /\ request = None /\ exc_info = <<None, None>>
    /\ called = <<"none", None>> /\ reply = None /\ wire = NoDecoded
RegIdle ==
    /\ func_registry = EmptyMap /\ stream_registry = EmptyMap
    /\ last_reg = <<"none", "", "">>
TrkIdle ==
    /\ exec_timeout = FALSE
    /\ calls = <<>> /\ table = EmptyMap
    /\ cancels = {} /\ event = <<"none", None>>

----------------------------------------------------------------------------
(* The codec: a sender encodes msg, a receiver decodes the pair *)

CodecInit ==
    /\ has_snappy \in [{"tx", "rx"} -> BOOLEAN]
    /\ msg \in TypedMessages
    /\ compress \in BOOLEAN
    /\ raw = NoRaw /\ decoded = NoDecoded /\ cpc = "init"
    /\ CtorIdle /\ RegIdle /\ TrkIdle

Encode ==
    /\ cpc = "init"
    /\ raw' = RPCMessage_encode(has_snappy["tx"], msg, compress)
    /\ cpc' = "encoded"
    /\ UNCHANGED <<has_snappy, msg, compress, decoded>>
    /\ UNCHANGED <<ctor_vars, reg_vars, trk_vars>>

Decode ==
    /\ cpc = "encoded"
    /\ raw.raised = ""
    /\ decoded' = RPCMessage_decode(has_snappy["rx"], raw)
    /\ cpc' = "decoded"
    /\ UNCHANGED <<has_snappy, msg, compress, raw>>
    /\ UNCHANGED <<ctor_vars, reg_vars, trk_vars>>

CodecNext == Encode \/ Decode
CodecSpec == CodecInit /\ [][CodecNext]_vars

----------------------------------------------------------------------------------------------------------------------------------------
(* The reply constructors: a handler's outcome is wrapped into a reply to  *)
(* request, which is then sent to the caller's side.                       *)

Requests == {x \in TypedMessages : x.msgtype \in {FUNCTION, STREAM}}

CtorInit ==
    /\ request \in Requests
    /\ exc_info \in ExcInfos
    /\ called = <<"none", None>> /\ reply = None /\ wire = NoDecoded
    /\ CodecIdle /\ RegIdle /\ TrkIdle

Built(name, body, m) ==
    /\ called[1] = "none"
    /\ called' = <<name, body>>
    /\ reply' = m
    /\ UNCHANGED <<request, exc_info, wire>>
    /\ UNCHANGED <<codec_vars, reg_vars, trk_vars>>

Result == \E b \in Values : Built("result", b, result(request, b))
Failure == Built("failure", None, failure(request))
Error == Built("error", None, error(request))
Cancel == Built("cancel", None, cancel(request))

Transmit ==
    /\ called[1] # "none" /\ wire = NoDecoded
    /\ \E c \in BOOLEAN :
        wire' = RPCMessage_decode(TRUE, RPCMessage_encode(TRUE, reply, c))
    /\ UNCHANGED <<request, exc_info, called, reply>>
    /\ UNCHANGED <<codec_vars, reg_vars, trk_vars>>

CtorNext == Result \/ Failure \/ Error \/ Cancel \/ Transmit
CtorSpec == CtorInit /\ [][CtorNext]_vars

----------------------------------------------------------------------------
(* The Peer's handler registries *)

Names == {"dummy", "x", "y"}
Handlers == {"f", "g"}

RegInit ==
    /\ func_registry = EmptyMap /\ stream_registry = EmptyMap
    /\ last_reg = <<"none", "", "">>
    /\ CodecIdle /\ CtorIdle /\ TrkIdle

\* registry[method] = handler
Insert(registry, method, handler) ==
    [n \in DOMAIN registry \cup {method} |->
        IF n = method THEN handler ELSE registry[n]]

handle_function(method, handler) ==
    /\ func_registry' = Insert(func_registry, method, handler)
    /\ last_reg' = <<"function", method, handler>>
    /\ UNCHANGED stream_registry
    /\ UNCHANGED <<codec_vars, ctor_vars, trk_vars>>

handle_stream(method, handler) ==
    /\ stream_registry' = Insert(stream_registry, method, handler)
    /\ last_reg' = <<"stream", method, handler>>
    /\ UNCHANGED func_registry
    /\ UNCHANGED <<codec_vars, ctor_vars, trk_vars>>

HandleFunction == \E n \in Names, h \in Handlers : handle_function(n, h)
HandleStream == \E n \in Names, h \in Handlers : handle_stream(n, h)

RegNext == HandleFunction \/ HandleStream
RegSpec == RegInit /\ [][RegNext]_vars

----------------------------------------------------------------------------
(* The Request Tracker *)

MaxCalls == 2

TrkMethods == Methods
TrkOrderKeys == {PyStr(<<>>)}
TrkSeqIds == {PyInt(1), PyInt(2)}
TrkRequests ==
    {RPCMessage(FUNCTION, m, o, q, FunctionMetadata,
                PyList(<<PyInt(2), PyInt(3)>>)) :
        m \in TrkMethods, o \in TrkOrderKeys, q \in TrkSeqIds}
\* the replies a remote peer can send: to any request, sent or not
Replies ==
    {result(r, PyInt(5)) : r \in TrkRequests}
        \cup {failure(r) : r \in TrkRequests}
        \cup {error(r) : r \in TrkRequests}

Pending(cs) == {i \in 1..Len(cs) : cs[i].state = "PENDING"}
Remove(t, rid) == [x \in DOMAIN t \ {rid} |-> t[x]]

TrkInit ==
    /\ exec_timeout \in BOOLEAN
    /\ calls = <<>> /\ table = EmptyMap
    /\ cancels = {} /\ event = <<"none", None>>
    /\ request = None
    /\ exc_info = <<PyStr(<<69>>), PyStr(<<116, 98>>)>>
    /\ called = <<"none", None>> /\ reply = None /\ wire = NoDecoded
    /\ CodecIdle /\ RegIdle

\* an outbound call: the request is sent and its entry enters PENDING
Send(r) ==
    /\ Len(calls) < MaxCalls
    /\ request_id(r) \notin DOMAIN table
    /\ calls' = Append(calls, [req |-> r, state |-> "PENDING",
                               value |-> None, by |-> None])
    /\ table' = [x \in DOMAIN table \cup {request_id(r)} |->
                    IF x = request_id(r) THEN Len(calls) + 1 ELSE table[x]]
    /\ event' = <<"sent", r>>
    /\ UNCHANGED <<exec_timeout, cancels>>
    /\ UNCHANGED <<codec_vars, ctor_vars, reg_vars>>

\* a RESULT, FAILURE or ERROR arrives
OnReply(m) ==
    /\ IF request_id(m) \in DOMAIN table
       THEN LET i == table[request_id(m)] IN
            /\ calls' = [calls EXCEPT ![i] =
                    [req |-> calls[i].req,
                     state |-> IF m.msgtype = RESULT THEN "FULFILLED"
                               ELSE "FAILED",
                     value |-> IF m.msgtype = RESULT THEN m.body
                               ELSE m.metadata,
                     by |-> m]]
            /\ table' = Remove(table, request_id(m))
            /\ event' = <<"resolved", m>>
       ELSE /\ event' = <<"dropped", m>>
            /\ UNCHANGED <<calls, table>>
    /\ UNCHANGED <<exec_timeout, cancels>>
    /\ UNCHANGED <<codec_vars, ctor_vars, reg_vars>>

\* a PENDING entry is abandoned: by its deadline or by the caller
Abandon(i, state, kind) ==
    /\ i \in Pending(calls)
    /\ calls' = [calls EXCEPT ![i].state = state]
    /\ table' = Remove(table, request_id(calls[i].req))
    /\ cancels' = cancels \cup {cancel(calls[i].req)}
    /\ event' = <<kind, cancel(calls[i].req)>>
    /\ UNCHANGED exec_timeout
    /\ UNCHANGED <<codec_vars, ctor_vars, reg_vars>>

SendCall == \E r \in TrkRequests : Send(r)
ReplyArrives == \E m \in Replies : OnReply(m)
DeadlineElapses ==
    \E i \in 1..Len(calls) : exec_timeout /\ Abandon(i, "TIMED_OUT", "timeout")
CallerCancels == \E i \in 1..Len(calls) : Abandon(i, "CANCELLED", "cancel")

TrkNext == SendCall \/ ReplyArrives \/ DeadlineElapses \/ CallerCancels
TrkSpec == TrkInit /\ [][TrkNext]_vars

----------------
(* Properties of the codec *)

\* the metadata is absent or of the class the table assigns to the type
Matching(m) ==
    m.metadata = None \/ m.metadata.cls = metadata_types(m.msgtype)

\* what the pair on the wire holds: the zip flag of the header and the
\* {meta, body} dict of the body blob
WireZip == Get(munpackb(raw.header).value, K_zip) = PyBool(TRUE)
WireBlob ==
    munpackb(IF WireZip THEN snappy_decompress(raw.data).value
             ELSE raw.data).value

\* C1: for every message whose metadata is absent or matches its type,
\* encode succeeds (given the compressor when compress is asked for) and
\* decode of the pair gives back a message equal to it field for field.
C1_RoundTrip ==
    /\ (cpc # "init" /\ Matching(msg) /\ (~compress \/ has_snappy["tx"]))
            => raw.raised = ""
    /\ (cpc = "decoded" /\ Matching(msg) /\ (~compress \/ has_snappy["rx"]))
            => /\ decoded.raised = ""
               /\ decoded.value.msgtype = msg.msgtype
               /\ decoded.value.method = msg.method
               /\ decoded.value.order_key = msg.order_key
               /\ decoded.value.seq_id = msg.seq_id
               /\ decoded.value.metadata = msg.metadata
               /\ decoded.value.body = msg.body

C1_Witness ==
    /\ cpc = "decoded" /\ compress /\ decoded.raised = ""
    /\ msg.msgtype = STREAM /\ msg.metadata # None
    /\ msg.metadata.cls = "StreamMetadata"
    /\ msg.body = PyBytes(<<1, 255>>)
    /\ decoded.value = msg

\* C2: a message whose metadata is of another class than the table assigns
\* to its type is rejected by encode, or decode never returns a message
\* whose metadata is of a different class than the one encoded.
C2_NoSilentMismatch ==
    (cpc = "decoded" /\ ~Matching(msg) /\ decoded.raised = "")
        => /\ decoded.value.metadata # None
           /\ decoded.value.metadata.cls = msg.metadata.cls

\* C3 as claimed: zero-length metadata bytes under RESULT, FAILURE or ERROR
\* decode to an instance of the type's metadata class.
C3_EmptyGivesInstance ==
    (cpc = "decoded" /\ decoded.raised = ""
        /\ msg.msgtype \in {RESULT, FAILURE, ERROR}
        /\ Get(WireBlob, K_meta).v = <<>>)
        => /\ decoded.value.metadata # None
           /\ decoded.value.metadata.cls = metadata_types(msg.msgtype)

\* C3 amended: zero-length metadata bytes decode, for every message type,
\* to an absent metadata (None) without an error; an instance of the type's
\* class comes only from metadata bytes that are not empty.
C3_EmptyGivesNone ==
    (cpc = "decoded" /\ (~WireZip \/ has_snappy["rx"]))
        => IF Get(WireBlob, K_meta).v = <<>>
           THEN decoded.raised = "" /\ decoded.value.metadata = None
           ELSE decoded.raised = "" => decoded.value.metadata # None

C3_Witness ==
    /\ cpc = "decoded" /\ decoded.raised = ""
    /\ msg.msgtype = RESULT
    /\ Get(WireBlob, K_meta).v = <<>>
    /\ decoded.value.metadata = None

\* C4: without the compressor, encode with compress fails with
\* ConfigurationError and gives no pair, and decode of a pair whose header
\* has zip set fails with ConfigurationError and gives no message; without
\* compress / zip the compressor's availability changes nothing.
C4_NoSilentDegrade ==
    /\ (cpc # "init" /\ compress /\ ~has_snappy["tx"])
            => /\ raw.raised = "ConfigurationError"
               /\ raw.header = <<>> /\ raw.data = <<>>
    /\ (cpc = "decoded" /\ WireZip /\ ~has_snappy["rx"])
            => /\ decoded.raised = "ConfigurationError"
               /\ decoded.value = None
    /\ (cpc # "init" /\ ~compress)
            => /\ raw.raised = ""
               /\ \A a \in BOOLEAN : raw = RPCMessage_encode(a, msg, FALSE)
    /\ (cpc = "decoded" /\ ~WireZip)
            => \A a \in BOOLEAN : decoded = RPCMessage_decode(a, raw)

C4_Witness ==
    /\ cpc = "decoded" /\ WireZip
    /\ has_snappy["tx"] /\ ~has_snappy["rx"]
    /\ decoded.raised = "ConfigurationError"

\* C10: encode calls the serializer exactly for FUNCTION and RESULT, with
\* the body, and puts its output in the blob; decode calls the deserializer
\* exactly for those two types, with the blob's body; for the other types
\* neither is called and the body goes in and comes out unchanged.
C10_CodecOnlyForFunctionResult ==
    /\ (cpc # "init" /\ raw.raised = "")
            => IF msg.msgtype \in {FUNCTION, RESULT}
               THEN /\ raw.ser_calls = <<msg.body>>
                    /\ Get(WireBlob, K_body) = serializer(msg.body)
               ELSE /\ raw.ser_calls = <<>>
                    /\ Get(WireBlob, K_body) = msg.body
    /\ (cpc = "decoded" /\ decoded.raised = "")
            => IF msg.msgtype \in {FUNCTION, RESULT}
               THEN /\ decoded.deser_calls = <<Get(WireBlob, K_body)>>
                    /\ decoded.value.body
                         = deserializer(Get(WireBlob, K_body)).value
               ELSE /\ decoded.deser_calls = <<>>
                    /\ decoded.value.body = Get(WireBlob, K_body)

C10_Witness ==
    /\ cpc = "decoded" /\ decoded.raised = ""
    /\ msg.msgtype = STREAM /\ msg.body = PyBytes(<<1, 255>>)
    /\ decoded.deser_calls = <<>>
    /\ decoded.value.body = msg.body


----------------------------------------------------------------------------
(* Properties of the reply constructors *)

\* C5: each of result, failure, error and cancel gives a message whose
\* method, order_key and seq_id, hence whose request_id, are the request's;
\* the request itself is not changed.
C5_RepliesKeepRequestId ==
    [][/\ request' = request
       /\ called'[1] # "none" =>
            /\ reply'.method = request.method
            /\ reply'.order_key = request.order_key
            /\ reply'.seq_id = request.seq_id
            /\ request_id(reply') = request_id(request)]_vars

C5_Witness ==
    /\ called[1] = "cancel"
    /\ request.msgtype = STREAM
    /\ request.seq_id = PyInt(200)
    /\ request_id(reply) = request_id(request)

\* C9: result gives RESULT with a ResultMetadata and the given body, cancel
\* gives CANCEL with a NullMetadata and no body, failure gives FAILURE and
\* error gives ERROR, both with the ErrorMetadata of the handled exception
\* and no body, alike but for the type; the type and the metadata class are
\* the ones the table binds, and the receiver decodes the same type.
C9_ConstructorsFollowTable ==
    /\ called[1] = "result" =>
            /\ reply.msgtype = RESULT /\ reply.metadata = ResultMetadata
            /\ reply.body = called[2]
    /\ called[1] = "cancel" =>
            /\ reply.msgtype = CANCEL /\ reply.metadata = NullMetadata
            /\ reply.body = None
    /\ called[1] = "failure" =>
            /\ reply.msgtype = FAILURE
            /\ reply = [error(request) EXCEPT !.msgtype = FAILURE]
    /\ called[1] = "error" =>
            /\ reply.msgtype = ERROR
            /\ reply = [failure(request) EXCEPT !.msgtype = ERROR]
    /\ called[1] \in {"failure", "error"} =>
            /\ reply.metadata = ErrorMetadata(exc_info[1], exc_info[2])
            /\ reply.body = None
    /\ called[1] # "none" =>
            reply.metadata.cls = metadata_types(reply.msgtype)
    /\ (called[1] # "none" /\ wire # NoDecoded) =>
            /\ wire.raised = ""
            /\ wire.value.msgtype = reply.msgtype
            /\ wire.value.metadata = reply.metadata

C9_Witness ==
    /\ called[1] = "failure"
    /\ wire # NoDecoded /\ wire.raised = ""
    /\ wire.value.msgtype = FAILURE
    /\ wire.value.metadata.cls = "ErrorMetadata"

----------------------------------------------------------------------------
(* Properties of the registries *)

\* C6: no name is in both registries; right after handle_function(x, f),
\* x maps to f in the function registry and is not in the stream registry,
\* and likewise for handle_stream; registering again replaces the handler.
C6_RegistryExclusive ==
    /\ DOMAIN func_registry \cap DOMAIN stream_registry = {}
    /\ last_reg[1] = "function" =>
            /\ last_reg[2] \in DOMAIN func_registry
            /\ func_registry[last_reg[2]] = last_reg[3]
            /\ last_reg[2] \notin DOMAIN stream_registry
    /\ last_reg[1] = "stream" =>
            /\ last_reg[2] \in DOMAIN stream_registry
            /\ stream_registry[last_reg[2]] = last_reg[3]
            /\ last_reg[2] \notin DOMAIN func_registry

----------------------------------------------------------------------------
(* Properties of the Request Tracker *)

Triple(m) == <<m.method, m.order_key, m.seq_id>>

\* C7: a call is resolved only by a reply that carries its method, its
\* order_key and its seq_id: of two pending calls with the same method and
\* order_key, a reply with one's seq_id never resolves the other.
C7_NoCrossResolve ==
    /\ \A i \in 1..Len(calls) :
            calls[i].by # None =>
                /\ calls[i].by.method = calls[i].req.method
                /\ calls[i].by.order_key = calls[i].req.order_key
                /\ calls[i].by.seq_id = calls[i].req.seq_id
    /\ \A i \in Pending(calls) :
            event[1] = "resolved" => Triple(event[2]) # Triple(calls[i].req)

C7_Witness ==
    \E i, j \in 1..Len(calls) :
        /\ j < i
        /\ calls[i].req.method = calls[j].req.method
        /\ calls[i].req.order_key = calls[j].req.order_key
        /\ calls[i].req.seq_id # calls[j].req.seq_id
        /\ calls[j].state = "PENDING"
        /\ calls[i].state = "FULFILLED"
        /\ event = <<"resolved", calls[i].by>>

\* the tracking table holds exactly the PENDING entries, under their keys
C8_TableHoldsPending ==
    /\ DOMAIN table = {Triple(calls[i].req) : i \in Pending(calls)}
    /\ \A rid \in DOMAIN table :
            /\ table[rid] \in Pending(calls)
            /\ Triple(calls[table[rid]].req) = rid
\* what one step may do to the calls and to the table
C8_Step ==
    /\ \A i \in 1..Len(calls) :
        /\ calls[i].state # "PENDING" => calls'[i] = calls[i]
        /\ (calls[i].state = "PENDING" /\ calls'[i].state # "PENDING") =>
            /\ Triple(calls[i].req) \notin DOMAIN table'
            /\ \A j \in 1..Len(calls) : j # i => calls'[j] = calls[j]
            /\ \/ /\ event'[1] = "resolved"
                  /\ Triple(event'[2]) = Triple(calls[i].req)
                  /\ calls'[i].state
                        = IF event'[2].msgtype = RESULT THEN "FULFILLED"
                          ELSE "FAILED"
               \/ /\ event'[1] = "timeout" /\ exec_timeout
                  /\ calls'[i].state = "TIMED_OUT"
               \/ /\ event'[1] = "cancel"
                  /\ calls'[i].state = "CANCELLED"
    /\ (event'[1] \in {"resolved", "dropped"}
            /\ \A i \in Pending(calls) :
                    Triple(calls[i].req) # Triple(event'[2]))
        => /\ event'[1] = "dropped"
           /\ calls' = calls /\ table' = table
====
